---------------------------- MODULE Spec2Model ----------------------------
(***************************************************************************)
(* A model of the CHIP-8 interpreter of chip-go (package chip8).           *)
(*                                                                         *)
(* The variables are the fields of the Interpreter struct, plus the        *)
(* position of the embedding program (status), the result of the last      *)
(* Cycle call (err) and history variables that record what the last Cycle  *)
(* did (beeps, ticked, drawnOver) or what earlier ones did (lastBeep,      *)
(* cycles, calls, saved).                                                  *)
(*                                                                         *)
(* The opcode handlers are operators on a record s holding the fields of   *)
(* the Interpreter; each returns the record after the handler, with the    *)
(* handler's result in s.err.  Cycle is the composition the Go code makes: *)
(* fetch, dispatch, timers.                                                *)
(***************************************************************************)
EXTENDS Integers, Sequences, FiniteSets

(***************************************************************************)
(* Program constants.                                                      *)
(***************************************************************************)
DisplayWidth == 64
DisplayHeight == 32
CPUFrequency == 850
ClockFrequency == 60
V0 == 0
VF == 15
MemorySize == 4096
StackSize == 16
NumKeys == 16
ProgramStart == 512

(***************************************************************************)
(* Bounds of the model.                                                    *)
(***************************************************************************)
\* successful Cycle calls counted by the history variable cycles
MaxCycles == 16

(***************************************************************************)
(* Fixed-width integers and the bit operators of Go.                       *)
(***************************************************************************)
Byte == 0..255
Word == 0..65535

U8(v) == v % 256
U16(v) == v % 65536

RECURSIVE BitOp(_, _, _, _)
\* bitwise combination of a and b over w bits; f is the truth table <<f00, f01, f10, f11>>
BitOp(f, a, b, w) ==
    IF w = 0 \/ (a = 0 /\ b = 0 /\ f[1] = 0) THEN 0
    ELSE f[2 * (a % 2) + (b % 2) + 1] + 2 * BitOp(f, a \div 2, b \div 2, w - 1)

And(a, b) == BitOp(<<0, 0, 0, 1>>, a, b, 16)
Or(a, b) == BitOp(<<0, 1, 1, 1>>, a, b, 16)
Xor(a, b) == BitOp(<<0, 1, 1, 0>>, a, b, 16)

RECURSIVE Pow2(_)
Pow2(k) == IF k = 0 THEN 1 ELSE 2 * Pow2(k - 1)

Shr(a, k) == a \div Pow2(k)
Shl(a, k) == a * Pow2(k)

(***************************************************************************)
(* Decoder: the field extractions of an instruction word.                  *)
(***************************************************************************)
addr(word) == And(word, \h0fff)
x(word) == U8(Shr(And(word, \h0f00), 8))
y(word) == U8(Shr(And(word, \h00f0), 4))
n(word) == U8(And(word, \h000f))
byte(word) == U8(And(word, \h00ff))


(***************************************************************************)
(* The built-in digit sprites, 5 bytes per glyph.                          *)
(***************************************************************************)
digitSprites ==
    << \hf0, \h90, \h90, \h90, \hf0,
       \h20, \h60, \h20, \h20, \h70,
       \hf0, \h10, \hf0, \h80, \hf0,
       \hf0, \h10, \hf0, \h10, \hf0,
       \h90, \h90, \hf0, \h10, \h10,
       \hf0, \h80, \hf0, \h10, \hf0,
       \hf0, \h80, \hf0, \h90, \hf0,
       \hf0, \h10, \h20, \h40, \h40,
       \hf0, \h90, \hf0, \h90, \hf0,
       \hf0, \h90, \hf0, \h10, \hf0,
       \hf0, \h90, \hf0, \h90, \h90,
       \he0, \h90, \he0, \h90, \he0,
       \hf0, \h80, \h80, \h80, \hf0,
       \he0, \h90, \h90, \h90, \he0,
       \hf0, \h80, \hf0, \h80, \hf0,
       \hf0, \h80, \hf0, \h80, \h80 >>

(***************************************************************************)
(* The state: the fields of Interpreter, then the caller and the history.  *)
(***************************************************************************)
VARIABLES
    pc,                 \* program counter (uint16)
    sp,                 \* stack pointer (uint16)
    dt,                 \* delay timer (uint8)
    st,                 \* sound timer (uint8)
    vx,                 \* the registers V0..VF
    i,                  \* the address register I (uint16)
    stack,              \* [16]uint16
    memory,             \* [4096]uint8
    display,            \* [32][64]uint8
    keys,               \* [16]bool
    lastReleasedKey,    \* *Key: << >> is nil, <<k>> points to a copy of k
    opcode,             \* the word fetched last
    clockCycleCounter,  \* uint8
    isSoundPlaying,     \* bool
    status,             \* the embedding program: "new" before Load, then "loaded"
    err,                \* what the last Cycle call gave: "none" before the first call,
                        \* "nil", "ErrUnknownOpcode", or "panic" (a Go run-time panic)
    beeps,              \* history: the arguments of the beep calls of the last Cycle
    ticked,             \* history: whether the last Cycle ran the timer branch
    lastBeep,           \* history: << >>, or <<on>> for the last beep call ever made
    cycles,             \* history: Cycle calls that returned nil, up to MaxCycles
    calls,              \* history: PC and SP at each CALL that has not returned
    saved,              \* history: << >>, or I, x and the registers at the last Fx55
                        \* if memory was not written since
    drawnOver           \* history: << >>, or the display before the last Cycle if that
                        \* Cycle was a Dxyn

vars == << pc, sp, dt, st, vx, i, stack, memory, display, keys, lastReleasedKey,
           opcode, clockCycleCounter, isSoundPlaying, status, err, beeps, ticked,
           lastBeep, cycles, calls, saved, drawnOver >>

\* the Interpreter of the current state, as the record the handlers work on
Self ==
    [ pc |-> pc, sp |-> sp, dt |-> dt, st |-> st, vx |-> vx, i |-> i,
      stack |-> stack, memory |-> memory, display |-> display, keys |-> keys,
      lastReleasedKey |-> lastReleasedKey, opcode |-> opcode,
      clockCycleCounter |-> clockCycleCounter, isSoundPlaying |-> isSoundPlaying,
      err |-> "nil", beeps |-> << >>, ticked |-> FALSE ]

ZeroDisplay == [r \in 0..(DisplayHeight - 1) |-> [c \in 0..(DisplayWidth - 1) |-> 0]]

\* NewInterpreter: every field zero except pc
NewInterpreter ==
    /\ pc = ProgramStart
    /\ sp = 0
    /\ dt = 0
    /\ st = 0
    /\ vx = [r \in 0..15 |-> 0]
    /\ i = 0
    /\ stack = [k \in 0..(StackSize - 1) |-> 0]
    /\ memory = [a \in 0..(MemorySize - 1) |-> 0]
    /\ display = ZeroDisplay
    /\ keys = [k \in 0..(NumKeys - 1) |-> FALSE]
    /\ lastReleasedKey = << >>
    /\ opcode = 0
    /\ clockCycleCounter = 0
    /\ isSoundPlaying = FALSE

Init ==
    /\ NewInterpreter
    /\ status = "new"
    /\ err = "none"
    /\ beeps = << >>
    /\ ticked = FALSE
    /\ lastBeep = << >>
    /\ cycles = 0
    /\ calls = << >>
    /\ saved = << >>
    /\ drawnOver = << >>

(***************************************************************************)
(* The results of a handler.                                               *)
(***************************************************************************)
\* return ErrUnknownOpcode
Fail(s) == [s EXCEPT !.err = "ErrUnknownOpcode"]
\* a run-time panic (index out of range): the call does not return
Panic(s) == [s EXCEPT !.err = "panic"]
\* i.pc += 2
Advance(s) == [s EXCEPT !.pc = U16(s.pc + 2)]
\* i.vx[r] = v
SetV(s, r, v) == [s EXCEPT !.vx[r] = v]

(***************************************************************************)
(* Opcode handlers 0..7.                                                   *)
(***************************************************************************)
\* 00EE: i.sp -= 1; i.pc = i.stack[i.sp]
Ret(s) ==
    LET sp1 == U16(s.sp - 1) IN
    IF sp1 >= StackSize
    THEN Panic([s EXCEPT !.sp = sp1])
    ELSE [s EXCEPT !.sp = sp1, !.pc = s.stack[sp1]]

\* 00E0 mutated to leave the first row
ClsFromSecondRow(s) ==
    [s EXCEPT !.display = [r \in 0..(DisplayHeight - 1) |->
                              IF r = 0 THEN s.display[r] ELSE ZeroDisplay[r]]]

\* 00E0: clear(i.display[:])
Cls(s) == [s EXCEPT !.display = ZeroDisplay]

\* i.pc += 2 at the end of a handler, not reached by a panic
Done(s) == IF s.err = "panic" THEN s ELSE Advance(s)

opHandler0(s) ==
    LET low == And(s.opcode, \h00ff) IN
    CASE low = \h00e0 -> Done(Cls(s))
      [] low = \h00ee -> Done(Ret(s))
      [] OTHER -> Fail(s)

opHandler1(s) == [s EXCEPT !.pc = addr(s.opcode)]

\* CALL mutated to push the address of the next instruction
CallPushesNext(s) ==
    IF s.sp >= StackSize
    THEN Panic(s)
    ELSE [s EXCEPT !.stack[s.sp] = U16(s.pc + 2), !.sp = U16(s.sp + 1),
                   !.pc = addr(s.opcode)]

opHandler2(s) ==
    IF s.sp >= StackSize
    THEN Panic(s)
    ELSE [s EXCEPT !.stack[s.sp] = s.pc, !.sp = U16(s.sp + 1), !.pc = addr(s.opcode)]

opHandler3(s) ==
    LET s1 == Advance(s) IN
    IF s1.vx[x(s.opcode)] = byte(s.opcode) THEN Advance(s1) ELSE s1

opHandler4(s) ==
    LET s1 == Advance(s) IN
    IF s1.vx[x(s.opcode)] # byte(s.opcode) THEN Advance(s1) ELSE s1

opHandler5(s) ==
    IF And(s.opcode, \h000f) # 0
    THEN Fail(s)
    ELSE LET s1 == Advance(s) IN
         IF s1.vx[x(s.opcode)] = s1.vx[y(s.opcode)] THEN Advance(s1) ELSE s1

opHandler6(s) == Advance([s EXCEPT !.vx[x(s.opcode)] = byte(s.opcode)])

\* 7xkk mutated to set VF to the carry
AddByteCarries(s) ==
    LET sum == s.vx[x(s.opcode)] + byte(s.opcode)
        s1 == SetV(s, x(s.opcode), U8(sum))
    IN Advance(SetV(s1, VF, IF sum > 255 THEN 1 ELSE 0))

opHandler7(s) == Advance([s EXCEPT !.vx[x(s.opcode)] = U8(@ + byte(s.opcode))])

(***************************************************************************)
(* Opcode handler 8: the register-register ALU.  The writes are made in    *)
(* the order of the Go statements: Vx first, VF last.                      *)
(***************************************************************************)
\* 8xy0 .. 8xy3
LdVxVy(s) == SetV(s, x(s.opcode), s.vx[y(s.opcode)])
OrVxVy(s) == SetV(s, x(s.opcode), Or(s.vx[x(s.opcode)], s.vx[y(s.opcode)]))
AndVxVy(s) == SetV(s, x(s.opcode), And(s.vx[x(s.opcode)], s.vx[y(s.opcode)]))
XorVxVy(s) == SetV(s, x(s.opcode), Xor(s.vx[x(s.opcode)], s.vx[y(s.opcode)]))

\* 8xy4 mutated to carry from 255 on
AddCarriesAt255(s) ==
    LET sum == U16(s.vx[x(s.opcode)] + s.vx[y(s.opcode)])
        s1 == SetV(s, x(s.opcode), U8(sum))
    IN SetV(s1, VF, IF sum >= 255 THEN 1 ELSE 0)

\* 8xy4
AddVxVy(s) ==
    LET sum == U16(s.vx[x(s.opcode)] + s.vx[y(s.opcode)])
        s1 == SetV(s, x(s.opcode), U8(sum))
    IN SetV(s1, VF, IF sum > 255 THEN 1 ELSE 0)

\* 8xy5 mutated to the comparison of the reference manual, Vx > Vy
SubFlagsStrictly(s) ==
    LET flag == IF s.vx[x(s.opcode)] > s.vx[y(s.opcode)] THEN 1 ELSE 0
        s1 == SetV(s, x(s.opcode), U8(s.vx[x(s.opcode)] - s.vx[y(s.opcode)]))
    IN SetV(s1, VF, flag)

\* 8xy5
SubVxVy(s) ==
    LET flag == IF s.vx[x(s.opcode)] >= s.vx[y(s.opcode)] THEN 1 ELSE 0
        s1 == SetV(s, x(s.opcode), U8(s.vx[x(s.opcode)] - s.vx[y(s.opcode)]))
    IN SetV(s1, VF, flag)

\* 8xy6
ShrVx(s) ==
    LET flag == And(s.vx[x(s.opcode)], \h0001)
        s1 == SetV(s, x(s.opcode), Shr(s.vx[x(s.opcode)], 1))
    IN SetV(s1, VF, flag)

\* 8xy7
SubnVxVy(s) ==
    LET flag == IF s.vx[y(s.opcode)] >= s.vx[x(s.opcode)] THEN 1 ELSE 0
        s1 == SetV(s, x(s.opcode), U8(s.vx[y(s.opcode)] - s.vx[x(s.opcode)]))
    IN SetV(s1, VF, flag)

\* 8xyE
ShlVx(s) ==
    LET flag == Shr(s.vx[x(s.opcode)], 7)
        s1 == SetV(s, x(s.opcode), U8(Shl(s.vx[x(s.opcode)], 1)))
    IN SetV(s1, VF, flag)

opHandler8(s) ==
    LET low == And(s.opcode, \h000f) IN
    CASE low = \h0000 -> Advance(LdVxVy(s))
      [] low = \h0001 -> Advance(OrVxVy(s))
      [] low = \h0002 -> Advance(AndVxVy(s))
      [] low = \h0003 -> Advance(XorVxVy(s))
      [] low = \h0004 -> Advance(AddVxVy(s))
      [] low = \h0005 -> Advance(SubVxVy(s))
      [] low = \h0006 -> Advance(ShrVx(s))
      [] low = \h0007 -> Advance(SubnVxVy(s))
      [] low = \h000e -> Advance(ShlVx(s))
      [] OTHER -> Fail(s)

(***************************************************************************)
(* Opcode handlers 9..C.  rnd is the value of rand.Intn(256).              *)
(***************************************************************************)
opHandler9(s) ==
    LET s1 == Advance(s) IN
    IF s1.vx[x(s.opcode)] # s1.vx[y(s.opcode)] THEN Advance(s1) ELSE s1

opHandlerA(s) == Advance([s EXCEPT !.i = addr(s.opcode)])

opHandlerB(s) == [s EXCEPT !.pc = U16(addr(s.opcode) + s.vx[V0])]

opHandlerC(s, rnd) == Advance(SetV(s, x(s.opcode), And(U8(rnd), byte(s.opcode))))

(***************************************************************************)
(* Opcode handler D: the sprite draw.  DrawFrom is the loop over the rows, *)
(* DrawRow the loop over the 8 pixels of a row; a sprite row outside       *)
(* memory panics at its first pixel, the rows drawn before it stay drawn.  *)
(***************************************************************************)
\* one pass of the inner loop mutated to set the cell, not to invert it
DrawPixelSets(s, startX, startY, row, col) ==
    LET a == U16(s.i + row) IN
    IF a >= MemorySize THEN Panic(s)
    ELSE LET tr == U8(startY + row) % DisplayHeight
             tc == U8(startX + col) % DisplayWidth
             old == s.display[tr][tc]
             new == Or(old, And(Shr(s.memory[a], 7 - col), 1))
         IN [s EXCEPT !.display[tr][tc] = new,
                      !.vx[VF] = IF old = 1 /\ new = 0 THEN 1 ELSE @]

\* one pass of the inner loop mutated to set VF from each pixel, the last
\* pixel deciding
DrawPixelFlagsEach(s, startX, startY, row, col) ==
    LET a == U16(s.i + row) IN
    IF a >= MemorySize THEN Panic(s)
    ELSE LET tr == U8(startY + row) % DisplayHeight
             tc == U8(startX + col) % DisplayWidth
             old == s.display[tr][tc]
             new == Xor(old, And(Shr(s.memory[a], 7 - col), 1))
         IN [s EXCEPT !.display[tr][tc] = new,
                      !.vx[VF] = IF old = 1 /\ new = 0 THEN 1 ELSE 0]

\* one pass of the inner loop of Dxyn: the pixel of sprite row `row`, column
\* `col`; reading memory past its end panics
DrawPixel(s, startX, startY, row, col) ==
    LET a == U16(s.i + row) IN
    IF a >= MemorySize THEN Panic(s)
    ELSE LET tr == U8(startY + row) % DisplayHeight
             tc == U8(startX + col) % DisplayWidth
             old == s.display[tr][tc]
             new == Xor(old, And(Shr(s.memory[a], 7 - col), 1))
         IN [s EXCEPT !.display[tr][tc] = new,
                      !.vx[VF] = IF old = 1 /\ new = 0 THEN 1 ELSE @]

\* the inner loop, x from col to 7
RECURSIVE DrawRow(_, _, _, _, _)
DrawRow(s, startX, startY, row, col) ==
    IF col >= 8 \/ s.err = "panic" THEN s
    ELSE DrawRow(DrawPixel(s, startX, startY, row, col), startX, startY, row, col + 1)

\* the outer loop, y from row to height - 1
RECURSIVE DrawFrom(_, _, _, _, _)
DrawFrom(s, startX, startY, height, row) ==
    IF row >= height \/ s.err = "panic" THEN s
    ELSE DrawFrom(DrawRow(s, startX, startY, row, 0), startX, startY, height, row + 1)

opHandlerD(s) ==
    LET startX == s.vx[x(s.opcode)]
        startY == s.vx[y(s.opcode)]
        height == n(s.opcode)
    IN Done(DrawFrom(SetV(s, VF, 0), startX, startY, height, 0))

(***************************************************************************)
(* Opcode handler E: the key skips.  PC is advanced before the switch.     *)
(***************************************************************************)
\* the key skips mutated to index the keys with Vx itself
KeySkipsUnmasked(s) ==
    LET s1 == Advance(s)
        low == And(s.opcode, \h00ff)
        key == s1.vx[x(s.opcode)]
    IN
    IF low \notin { \h009e, \h00a1 } THEN Fail(s1)
    ELSE IF key >= NumKeys THEN Panic(s1)
    ELSE IF (low = \h009e) = s1.keys[key] THEN Advance(s1) ELSE s1

opHandlerE(s) ==
    LET s1 == Advance(s)
        low == And(s.opcode, \h00ff)
        key == And(s1.vx[x(s.opcode)], \h0f)
    IN
    CASE low = \h009e -> IF s1.keys[key] THEN Advance(s1) ELSE s1
      [] low = \h00a1 -> IF ~s1.keys[key] THEN Advance(s1) ELSE s1
      [] OTHER -> Fail(s1)

(***************************************************************************)
(* Opcode handler F.  StoreFrom and LoadFrom are the loops of Fx55 and     *)
(* Fx65 from register k on; StoreBCD is the three writes of Fx33.          *)
(***************************************************************************)
\* Fx55 mutated to leave I behind the last cell written, as the COSMAC VIP did
RECURSIVE StoreFromMovesI(_, _, _)
StoreFromMovesI(s, last, k) ==
    IF k > last THEN [s EXCEPT !.i = U16(s.i + last + 1)]
    ELSE LET a == U16(s.i + k) IN
         IF a >= MemorySize THEN Panic(s)
         ELSE StoreFromMovesI([s EXCEPT !.memory[a] = s.vx[k]], last, k + 1)

RECURSIVE StoreFrom(_, _, _)
StoreFrom(s, last, k) ==
    IF k > last THEN s
    ELSE LET a == U16(s.i + k) IN
         IF a >= MemorySize THEN Panic(s)
         ELSE StoreFrom([s EXCEPT !.memory[a] = s.vx[k]], last, k + 1)

RECURSIVE LoadFrom(_, _, _)
LoadFrom(s, last, k) ==
    IF k > last THEN s
    ELSE LET a == U16(s.i + k) IN
         IF a >= MemorySize THEN Panic(s)
         ELSE LoadFrom(SetV(s, k, s.memory[a]), last, k + 1)

\* Fx33 mutated to store value / 10 as the tens digit
StoreBCDTensOverflow(s, value) ==
    LET a0 == s.i
        a1 == U16(s.i + 1)
        a2 == U16(s.i + 2)
    IN IF a0 >= MemorySize THEN Panic(s)
       ELSE LET s1 == [s EXCEPT !.memory[a0] = value \div 100] IN
            IF a1 >= MemorySize THEN Panic(s1)
            ELSE LET s2 == [s1 EXCEPT !.memory[a1] = value \div 10] IN
                 IF a2 >= MemorySize THEN Panic(s2)
                 ELSE [s2 EXCEPT !.memory[a2] = value % 10]

StoreBCD(s, value) ==
    LET a0 == s.i
        a1 == U16(s.i + 1)
        a2 == U16(s.i + 2)
    IN IF a0 >= MemorySize THEN Panic(s)
       ELSE LET s1 == [s EXCEPT !.memory[a0] = value \div 100] IN
            IF a1 >= MemorySize THEN Panic(s1)
            ELSE LET s2 == [s1 EXCEPT !.memory[a1] = (value \div 10) % 10] IN
                 IF a2 >= MemorySize THEN Panic(s2)
                 ELSE [s2 EXCEPT !.memory[a2] = value % 10]

\* Fx0A mutated to go on without a key
LdVxKGoesOn(s) ==
    IF s.lastReleasedKey = << >>
    THEN Advance(s)
    ELSE Advance([SetV(s, x(s.opcode), U8(s.lastReleasedKey[1]))
                    EXCEPT !.lastReleasedKey = << >>])

\* Fx0A mutated to leave the marker of the key it took
LdVxKKeepsMarker(s) ==
    IF s.lastReleasedKey = << >>
    THEN s
    ELSE Advance(SetV(s, x(s.opcode), U8(s.lastReleasedKey[1])))

\* Fx0A: without a released key the handler returns nil from inside the
\* switch, before the final i.pc += 2
LdVxK(s) ==
    IF s.lastReleasedKey = << >>
    THEN s
    ELSE Advance([SetV(s, x(s.opcode), U8(s.lastReleasedKey[1]))
                    EXCEPT !.lastReleasedKey = << >>])

\* Fx07, Fx15, Fx18, Fx1E, Fx29
LdVxDT(s) == SetV(s, x(s.opcode), s.dt)
LdDTVx(s) == [s EXCEPT !.dt = s.vx[x(s.opcode)]]
LdSTVx(s) == [s EXCEPT !.st = s.vx[x(s.opcode)]]
AddIVx(s) == [s EXCEPT !.i = U16(s.i + s.vx[x(s.opcode)])]
LdFVx(s) == [s EXCEPT !.i = U8(And(s.vx[x(s.opcode)], \h0f) * 5)]

opHandlerF(s) ==
    LET low == And(s.opcode, \h00ff) IN
    CASE low = \h0007 -> Advance(LdVxDT(s))
      [] low = \h000a -> LdVxK(s)
      [] low = \h0015 -> Advance(LdDTVx(s))
      [] low = \h0018 -> Advance(LdSTVx(s))
      [] low = \h001e -> Advance(AddIVx(s))
      [] low = \h0029 -> Advance(LdFVx(s))
      [] low = \h0033 -> Done(StoreBCD(s, s.vx[x(s.opcode)]))
      [] low = \h0055 -> Done(StoreFrom(s, x(s.opcode), 0))
      [] low = \h0065 -> Done(LoadFrom(s, x(s.opcode), 0))
      [] OTHER -> Fail(s)

(***************************************************************************)
(* Cycle: fetch, dispatch, and the timers when the handler returned nil.   *)
(***************************************************************************)
\* i.beep(on)
Beep(s, on) == [s EXCEPT !.beeps = Append(@, on)]

\* the sound timer mutated to call beep(true) at every tick of a running timer
SoundTickBeepsEachTick(s) ==
    IF s.st > 0
    THEN [Beep(s, TRUE) EXCEPT !.isSoundPlaying = TRUE, !.st = s.st - 1]
    ELSE IF s.isSoundPlaying
         THEN [Beep(s, FALSE) EXCEPT !.isSoundPlaying = FALSE]
         ELSE s

\* the sound timer mutated to forget that the sound was started
SoundTickForgetsStart(s) ==
    IF s.st > 0
    THEN LET on == IF ~s.isSoundPlaying THEN Beep(s, TRUE) ELSE s
         IN [on EXCEPT !.st = on.st - 1]
    ELSE IF s.isSoundPlaying
         THEN [Beep(s, FALSE) EXCEPT !.isSoundPlaying = FALSE]
         ELSE s

\* the sound timer mutated to stop at 1
SoundTickStopsAtOne(s) ==
    IF s.st > 0
    THEN LET on == IF ~s.isSoundPlaying
                   THEN [Beep(s, TRUE) EXCEPT !.isSoundPlaying = TRUE]
                   ELSE s
         IN IF on.st > 1 THEN [on EXCEPT !.st = on.st - 1] ELSE on
    ELSE IF s.isSoundPlaying
         THEN [Beep(s, FALSE) EXCEPT !.isSoundPlaying = FALSE]
         ELSE s

\* the sound timer in the timer branch, with the calls of beep
SoundTick(s) ==
    IF s.st > 0
    THEN LET on == IF ~s.isSoundPlaying
                   THEN [Beep(s, TRUE) EXCEPT !.isSoundPlaying = TRUE]
                   ELSE s
         IN [on EXCEPT !.st = on.st - 1]
    ELSE IF s.isSoundPlaying
         THEN [Beep(s, FALSE) EXCEPT !.isSoundPlaying = FALSE]
         ELSE s

\* the delay timer in the timer branch
DelayTick(s) == IF s.dt > 0 THEN [s EXCEPT !.dt = s.dt - 1] ELSE s

\* the counter test of Cycle and the timer branch it guards
Timers(s) ==
    IF s.clockCycleCounter = CPUFrequency \div ClockFrequency
    THEN [SoundTick(DelayTick(s)) EXCEPT !.clockCycleCounter = 0, !.ticked = TRUE]
    ELSE [s EXCEPT !.clockCycleCounter = U8(s.clockCycleCounter + 1)]

\* i.dispatch[i.opcode>>12]()
Dispatch(s, rnd) ==
    LET family == Shr(s.opcode, 12) IN
    CASE family = 0 -> opHandler0(s)
      [] family = 1 -> opHandler1(s)
      [] family = 2 -> opHandler2(s)
      [] family = 3 -> opHandler3(s)
      [] family = 4 -> opHandler4(s)
      [] family = 5 -> opHandler5(s)
      [] family = 6 -> opHandler6(s)
      [] family = 7 -> opHandler7(s)
      [] family = 8 -> opHandler8(s)
      [] family = 9 -> opHandler9(s)
      [] family = 10 -> opHandlerA(s)
      [] family = 11 -> opHandlerB(s)
      [] family = 12 -> opHandlerC(s, rnd)
      [] family = 13 -> opHandlerD(s)
      [] family = 14 -> opHandlerE(s)
      [] family = 15 -> opHandlerF(s)

\* the two-byte fetch; a PC outside memory panics before opcode is assigned
Fetch(s) ==
    IF s.pc >= MemorySize \/ U16(s.pc + 1) >= MemorySize
    THEN Panic(s)
    ELSE [s EXCEPT !.opcode = Or(Shl(s.memory[s.pc], 8), s.memory[U16(s.pc + 1)])]

CycleResult(s, rnd) ==
    LET fetched == Fetch(s) IN
    IF fetched.err # "nil" THEN fetched
    ELSE LET handled == Dispatch(fetched, rnd) IN
         IF handled.err # "nil" THEN handled ELSE Timers(handled)

(***************************************************************************)
(* The program images given to Load.                                       *)
(***************************************************************************)
\* the instruction word with nibbles f, a, b, c
Ins(f, a, b, c) == ((f * 16 + a) * 16 + b) * 16 + c

\* k copies of word w
Repeat(w, k) == [j \in 1..k |-> w]

\* the concatenation of a sequence of sequences
RECURSIVE Flatten(_)
Flatten(ss) == IF ss = << >> THEN << >> ELSE Head(ss) \o Flatten(Tail(ss))

\* words that are no defined encoding of their family
UnknownWords ==
    { \h0000, \h00e1, \h5011, \h801f, \h8018, \he000, \he19f, \hf000, \hf1ff }

\* sets registers, timers, I, the display and the stack, then meets word w
RomState(w) ==
    << \h6a07, \hfa15, \hfa18, \ha005, \hd005, \h220e, \h0000, w >>

\* waits for a key release twice
RomWait == << \h63aa, \hf30a, \hf30a >>

\* sets the sound timer to v and the delay timer to w, then spins
TimerValues == { << 1, 2 >>, << 2, 0 >>, << 0, 1 >> }
RomTimers(v, w) ==
    << Ins(6, 10, 0, v), \hfa18, Ins(6, 11, 0, w), \hfb15, \hf007, \h120a >>

\* starts the sound timer and stops it again before the first tick
RomSoundDropped == << \h6a02, \hfa18, \h6a00, \hfa18, \h1208 >>

\* sounds for one tick, waits on the delay timer for the sound to stop, sounds again
RomSoundTwice ==
    << \h6a01, \hfa18, \h6b02, \hfb15, \hf007, \h3000, \h1208, \hfa18, \h1210 >>

\* sets the sound timer to 1, and to 1 again after the tick that took it to 0
RomSoundAgain == << \h6a01, \hfa18 >> \o Repeat(\h6000, 13) \o << \hfa18, \h1220 >>

\* calls itself until V0 = limit, then returns from every call and once more
RecursionLimits == { 3, 17, 18 }
RomRecurse(limit) == << \h7001, Ins(3, 0, limit \div 16, limit % 16), \h2200, \h00ee >>

\* nested calls from three call sites
RomNested == << \h2206, \h220a, \h0000, \h220a, \h00ee, \h00ee >>

\* register pairs and operand values of the ALU programs
AluPairs == { << 0, 1 >>, << 15, 1 >>, << 1, 15 >>, << 2, 2 >>, << 15, 15 >> }
AluValues ==
    { << 0, 255 >>, << 1, 255 >>, << 255, 1 >>, << 128, 128 >>, << 1, 1 >>, << 0, 0 >> }
AluOps == << 0, 1, 2, 3, 4, 5, 6, 7, 14 >>

\* for each ALU operation: VF = 3, Vx = a, Vy = b, then 8xy<op>; then 7x<b>
RomAlu(rx, ry, a, b) ==
    Flatten([k \in 1..Len(AluOps) |->
                << \h6f03, Ins(6, rx, a \div 16, a % 16), Ins(6, ry, b \div 16, b % 16),
                   Ins(8, rx, ry, AluOps[k]) >>])
    \o << \h6f03, Ins(6, rx, a \div 16, a % 16), Ins(7, rx, b \div 16, b % 16) >>

\* sprite rows kept behind the code of the draw programs
SpriteData == << \hff81, \h3c5a, \h0180, \haa55, \hf00f, \h1824, \h4281, \he700 >>
DrawOrigins == { << 0, 0 >>, << 62, 31 >>, << 255, 255 >>, << 130, 70 >> }
DrawHeights == { 0, 1, 2, 15 }
DrawRegs == { 0, 15 }

\* draws h rows at (a, b), again 3 columns to the right, then there once more
RomDraw(rx, a, b, h) ==
    << Ins(6, rx, a \div 16, a % 16), Ins(6, 1, b \div 16, b % 16), \ha210,
       Ins(13, rx, 1, h), Ins(7, rx, 0, 3), Ins(13, rx, 1, h), Ins(13, rx, 1, h),
       \h0000 >> \o SpriteData

\* every skip instruction on V0 = v and V1 = w, each followed by an instruction
\* that is skipped or not
SkipValues == { << 0, 0 >>, << 16, 15 >>, << 255, 16 >> }
RomSkip(v, w) ==
    << Ins(6, 0, v \div 16, v % 16), Ins(6, 1, w \div 16, w % 16),
       Ins(3, 0, w \div 16, w % 16), \h7201, Ins(4, 0, w \div 16, w % 16), \h7201,
       \h5010, \h7201, \h9010, \h7201, \he09e, \h7201, \he0a1, \h7201 >>

\* both timers set to 2, then a wait for a key
RomTimedWait == << \h6a02, \hfa18, \hfa15, \hf30a, \h1208 >>

\* V0, V1 and VF stored by Fx55 at base, overwritten, and loaded back by Fx65
StoreCases ==
    { << 0, \h300 >>, << 1, \h300 >>, << 15, \h300 >>, << 15, \hff0 >>,
      << 0, \hfff >>, << 1, \hfff >> }
RomStore(rx, base) ==
    << \h6011, \h6122, \h6f33, \ha000 + base, Ins(15, rx, 5, 5),
       \h6044, \h6155, \h6f66, Ins(15, rx, 6, 5) >>

\* Fx33 of Vx = v at base
BcdCases ==
    { << 0, 0, \h300 >>, << 0, 9, \h300 >>, << 0, 10, \h300 >>, << 0, 99, \h300 >>,
      << 1, 100, \h300 >>, << 0, 157, \h300 >>, << 15, 255, \hffd >>,
      << 0, 157, \hffe >> }
RomBcd(rx, v, base) ==
    << Ins(6, rx, v \div 16, v % 16), \ha000 + base, Ins(15, rx, 3, 3) >>

\* I taken from 0xFFF past 65535 by AddISteps additions of V0 = 255, with VF = 3
AddISteps == 242
RomAddI == << \h6f03, \hafff, \h60ff >> \o Repeat(\hf01e, AddISteps)

\* the digit 0 drawn, the display cleared, the digit drawn again
RomClear == << \ha000, \hd015, \h00e0, \hd015 >>

\* programs that take PC or I to the end of memory: a jump to 0xFFF, a BFFF with
\* V0 = 255, a two-row sprite and two registers at I = 0xFFF, and a store at
\* I = 0xFFF + 1
EdgeRoms ==
    { << \h1fff >>, << \h60ff, \hbfff >>, << \hafff, \hd002 >>, << \hafff, \hf165 >>,
      << \hafff, \h6001, \hf01e, \hf055 >> }

Roms ==
    { RomState(w) : w \in UnknownWords }
    \cup { RomTimedWait, RomAddI, RomClear }
    \cup EdgeRoms
    \cup { RomBcd(c[1], c[2], c[3]) : c \in BcdCases }
    \cup { RomStore(c[1], c[2]) : c \in StoreCases }
    \cup { RomWait, RomSoundDropped, RomSoundAgain, RomSoundTwice, RomNested }
    \cup { RomTimers(v[1], v[2]) : v \in TimerValues }
    \cup { RomRecurse(limit) : limit \in RecursionLimits }
    \cup { RomSkip(v[1], v[2]) : v \in SkipValues }
    \cup { RomAlu(p[1], p[2], v[1], v[2]) : p \in AluPairs, v \in AluValues }
    \cup { RomDraw(rx, o[1], o[2], h) : rx \in DrawRegs, o \in DrawOrigins, h \in DrawHeights }

\* the bytes of a program image, big-endian
RomBytes(rom) ==
    [j \in 1..(2 * Len(rom)) |->
        IF j % 2 = 1 THEN rom[(j + 1) \div 2] \div 256 ELSE rom[j \div 2] % 256]

(***************************************************************************)
(* The operations of the Interpreter, as the embedding program calls them. *)
(***************************************************************************)
\* the keys that receive events: the first and the last
KeyIds == { 0, NumKeys - 1 }

\* the values rand.Intn(256) is taken to return
RandBytes == { 0, 1, 128, 255 }

Load ==
    /\ status = "new"
    /\ \E rom \in Roms :
          LET image == RomBytes(rom) IN
          memory' = [a \in 0..(MemorySize - 1) |->
                        IF a < Len(digitSprites) THEN digitSprites[a + 1]
                        ELSE IF a >= ProgramStart /\ a - ProgramStart < Len(image)
                             THEN image[a - ProgramStart + 1]
                             ELSE memory[a]]
    /\ status' = "loaded"
    /\ UNCHANGED << pc, sp, dt, st, vx, i, stack, display, keys, lastReleasedKey,
                    opcode, clockCycleCounter, isSoundPlaying, err, beeps, ticked,
                    lastBeep, cycles, calls, saved, drawnOver >>

SetKeyStateCall(key, pressed) ==
    /\ status = "loaded"
    /\ err # "panic"
    /\ keys' = [keys EXCEPT ![key] = pressed]
    /\ lastReleasedKey' = IF ~pressed THEN << key >> ELSE lastReleasedKey
    /\ UNCHANGED << pc, sp, dt, st, vx, i, stack, memory, display, opcode,
                    clockCycleCounter, isSoundPlaying, status, err, beeps, ticked,
                    lastBeep, cycles, calls, saved, drawnOver >>

SetKeyState == \E key \in KeyIds, pressed \in BOOLEAN : SetKeyStateCall(key, pressed)

\* rand.Intn is called by opHandlerC alone
RandChoices(s) ==
    IF s.pc < MemorySize /\ Shr(s.memory[s.pc], 4) = 12 THEN RandBytes ELSE { 0 }

\* the history of CALLs after a Cycle from s to t
CallsAfter(s, t) ==
    IF t.err # "nil" THEN calls
    ELSE IF Shr(t.opcode, 12) = 2 THEN Append(calls, [pc |-> s.pc, sp |-> s.sp])
    ELSE IF t.opcode = \h00ee /\ calls # << >> THEN SubSeq(calls, 1, Len(calls) - 1)
    ELSE calls

\* the registers saved by Fx55, after a Cycle from s to t
SavedAfter(s, t) ==
    IF t.err = "nil" /\ Shr(t.opcode, 12) = 15 /\ And(t.opcode, \h00ff) = \h55
    THEN << [i |-> s.i, x |-> x(t.opcode), vx |-> s.vx] >>
    ELSE IF Shr(t.opcode, 12) = 15 /\ And(t.opcode, \h00ff) = \h33 THEN << >>
    ELSE saved

\* the display a Dxyn drew over, after a Cycle from s to t
DrawnOverAfter(s, t) ==
    IF t.err = "nil" /\ Shr(t.opcode, 12) = 13 THEN << s.display >> ELSE << >>

Cycle ==
    /\ status = "loaded"
    /\ err # "panic"
    /\ \E rnd \in RandChoices(Self) :
       \E t \in { CycleResult(Self, rnd) } :
          /\ pc' = t.pc
          /\ sp' = t.sp
          /\ dt' = t.dt
          /\ st' = t.st
          /\ vx' = t.vx
          /\ i' = t.i
          /\ stack' = t.stack
          /\ memory' = t.memory
          /\ display' = t.display
          /\ lastReleasedKey' = t.lastReleasedKey
          /\ opcode' = t.opcode
          /\ clockCycleCounter' = t.clockCycleCounter
          /\ isSoundPlaying' = t.isSoundPlaying
          /\ err' = t.err
          /\ beeps' = t.beeps
          /\ ticked' = t.ticked
          /\ lastBeep' = IF t.beeps = << >> THEN lastBeep ELSE << t.beeps[Len(t.beeps)] >>
          /\ cycles' = IF t.err = "nil" /\ cycles < MaxCycles THEN cycles + 1 ELSE cycles
          /\ calls' = CallsAfter(Self, t)
          /\ saved' = SavedAfter(Self, t)
          /\ drawnOver' = DrawnOverAfter(Self, t)
    /\ UNCHANGED << keys, status >>

Next == Load \/ SetKeyState \/ Cycle

Spec == Init /\ [][Next]_vars

(***************************************************************************)
(* What the claims speak of, in terms of one Cycle step.                   *)
(***************************************************************************)
\* the word at PC before the step
WordAtPC == memory[pc] * 256 + memory[pc + 1]
CanFetch == pc + 1 < MemorySize
\* nibbles and low byte of a word
Nib(w, k) == (w \div Pow2(4 * k)) % 16
Low(w) == w % 256
IsOp(w, f, lo) == Nib(w, 3) = f /\ Low(w) = lo
\* a Cycle step (Cycle leaves the keys alone), and one that fetches a word
CycleStep == keys' = keys /\ status = "loaded" /\ Cycle
Fetches == CanFetch /\ CycleStep
\* a Cycle step that fetches a word of family f with low byte lo
Executes(f, lo) == CanFetch /\ IsOp(WordAtPC, f, lo) /\ CycleStep
\* the timers as the handler of the step leaves them, before any tick
DelaySet == IF IsOp(WordAtPC, 15, \h15) THEN vx[Nib(WordAtPC, 2)] ELSE dt
SoundSet == IF IsOp(WordAtPC, 15, \h18) THEN vx[Nib(WordAtPC, 2)] ELSE st
Decremented(v) == IF v > 0 THEN v - 1 ELSE 0

(***************************************************************************)
(* C1.  A Cycle that fetches a word that is no defined encoding of its     *)
(* family returns ErrUnknownOpcode and leaves PC, the registers, I, the    *)
(* stack, the stack pointer, memory, the display, both timers and the      *)
(* cycle counter as they were.  The code advances PC by 2 before it        *)
(* rejects a word of family E.                                             *)
(***************************************************************************)
IsUnknownWord(w) ==
    \/ Nib(w, 3) = 0 /\ Low(w) \notin { \he0, \hee }
    \/ Nib(w, 3) = 5 /\ Nib(w, 0) # 0
    \/ Nib(w, 3) = 8 /\ Nib(w, 0) \notin (0..7) \cup { 14 }
    \/ Nib(w, 3) = 14 /\ Low(w) \notin { \h9e, \ha1 }
    \/ Nib(w, 3) = 15
       /\ Low(w) \notin { \h07, \h0a, \h15, \h18, \h1e, \h29, \h33, \h55, \h65 }

C1_UnknownOpcodeKeepsState ==
    [][ (CanFetch /\ IsUnknownWord(WordAtPC) /\ CycleStep) =>
            /\ err' = "ErrUnknownOpcode"
            /\ UNCHANGED << pc, vx, i, stack, sp, memory, display, dt, st,
                            clockCycleCounter >> ]_vars

(***************************************************************************)
(* C2.  At an Fx0A with no released key pending a Cycle leaves PC and Vx   *)
(* unchanged; SetKeyState(k, true) leaves the marker as it is, so the wait *)
(* goes on; SetKeyState(k, false) makes k the pending key, replacing an    *)
(* earlier one; and with k pending the Cycle stores k in Vx, advances PC   *)
(* by 2 and clears the marker.                                             *)
(***************************************************************************)
C2_KeyWait ==
    [][ /\ (lastReleasedKey = << >> /\ Executes(15, \h0a)) =>
              /\ err' = "nil"
              /\ pc' = pc
              /\ vx'[Nib(WordAtPC, 2)] = vx[Nib(WordAtPC, 2)]
              /\ lastReleasedKey' = << >>
        /\ \A k \in KeyIds :
              /\ SetKeyStateCall(k, TRUE) => lastReleasedKey' = lastReleasedKey
              /\ SetKeyStateCall(k, FALSE) => lastReleasedKey' = << k >>
              /\ (lastReleasedKey = << k >> /\ Executes(15, \h0a)) =>
                    /\ err' = "nil"
                    /\ vx'[Nib(WordAtPC, 2)] = k
                    /\ pc' = pc + 2
                    /\ lastReleasedKey' = << >> ]_vars

\* the second Fx0A of a program has taken key F
C2_Witness ==
    /\ opcode = \hf30a
    /\ err = "nil"
    /\ pc = ProgramStart + 6
    /\ vx[3] = 15
    /\ lastReleasedKey = << >>

(***************************************************************************)
(* C3.  As claimed: beep(true) once in the Cycle whose Fx18 takes the      *)
(* sound timer from 0 to nonzero, beep(false) once in the Cycle whose tick *)
(* takes it from 1 to 0, and no other call.                                *)
(***************************************************************************)
C3_BeepOnTimerEdges ==
    [][ Fetches =>
          beeps' = (IF err' = "nil" /\ st = 0 /\ SoundSet > 0 THEN << TRUE >> ELSE << >>)
                   \o (IF err' = "nil" /\ ticked' /\ SoundSet = 1
                       THEN << FALSE >> ELSE << >>) ]_vars

(***************************************************************************)
(* C3, amended.  The callback is called only in a Cycle that runs the      *)
(* timer tick: with true when the sound timer is nonzero at the tick and   *)
(* no sound is playing, with false when the sound timer is 0 at the tick   *)
(* and a sound is playing, and not otherwise.                              *)
(***************************************************************************)
C3_BeepOnTickLevels ==
    [][ CycleStep =>
          beeps' = IF err' = "nil" /\ ticked'
                   THEN IF SoundSet > 0 /\ ~isSoundPlaying THEN << TRUE >>
                        ELSE IF SoundSet = 0 /\ isSoundPlaying THEN << FALSE >>
                        ELSE << >>
                   ELSE << >> ]_vars

\* the tick after the sound timer ran out has called beep(false)
C3_Witness == beeps = << FALSE >> /\ ticked /\ st = 0 /\ ~isSoundPlaying

(***************************************************************************)
(* C4.  The beep calls alternate true, false, true, ... from true on: a    *)
(* Cycle makes at most one call, only when it runs the timer tick, with    *)
(* the negation of the argument of the call before it (true for the first *)
(* call); isSoundPlaying is the argument of the last call, false before    *)
(* the first.                                                              *)
(***************************************************************************)
C4_BeepsAlternate ==
    /\ [](isSoundPlaying = (lastBeep = << TRUE >>))
    /\ [][ CycleStep =>
             /\ Len(beeps') <= 1
             /\ beeps' # << >> =>
                   /\ err' = "nil" /\ ticked'
                   /\ lastBeep # beeps'
                   /\ lastBeep = << >> => beeps' = << TRUE >> ]_vars

\* true, false and true again have been notified: the second true comes when the
\* program spins at 0x210
C4_Witness == beeps = << TRUE >> /\ isSoundPlaying /\ opcode = \h1210

(***************************************************************************)
(* C5.  As claimed: counting the Cycle calls that return nil, the timer    *)
(* tick runs in the cycles whose number is a multiple of                   *)
(* CPUFrequency/ClockFrequency = 14, and only there; a tick decrements     *)
(* each nonzero timer by 1, and without a tick the timers are as Fx15 and  *)
(* Fx18 set them.  The code ticks in the 15th, 30th, ... cycle.            *)
(***************************************************************************)
C5_TickEvery14Cycles ==
    [][ (cycles < MaxCycles /\ err' = "nil" /\ CycleStep) =>
          LET tick == cycles' % (CPUFrequency \div ClockFrequency) = 0 IN
          /\ ticked' = tick
          /\ dt' = IF tick THEN Decremented(DelaySet) ELSE DelaySet
          /\ st' = IF tick THEN Decremented(SoundSet) ELSE SoundSet ]_vars

\* a Cycle step that fetches a word of family f, one of family f with the low
\* nibble op, and one of family 8 with the low nibble op
ExecutesFamily(f) == CanFetch /\ Nib(WordAtPC, 3) = f /\ CycleStep
ExecutesAlike(f, op) ==
    CanFetch /\ Nib(WordAtPC, 3) = f /\ Nib(WordAtPC, 0) = op /\ CycleStep
ExecutesAlu(op) == ExecutesAlike(8, op)
\* the operand registers of the word at PC
RegX == Nib(WordAtPC, 2)
RegY == Nib(WordAtPC, 1)

(***************************************************************************)
(* C6.  calls records PC and SP at each CALL that has not returned, the    *)
(* latest last.  A CALL at depth 0..15 to any address succeeds, jumps      *)
(* there and makes the depth one more; the depth is the stack pointer; and *)
(* a RET returns to the CALL that is last in calls: PC becomes the PC of   *)
(* that CALL plus 2 and SP the value it had before that CALL.              *)
(***************************************************************************)
C6_CallRetRoundTrip ==
    /\ [](err # "panic" => sp = Len(calls))
    /\ [][ /\ (sp < StackSize /\ ExecutesFamily(2)) =>
                /\ err' = "nil"
                /\ pc' = WordAtPC % 4096
                /\ calls' = Append(calls, [pc |-> pc, sp |-> sp])
           /\ (calls # << >> /\ Executes(0, \hee)) =>
                /\ err' = "nil"
                /\ pc' = calls[Len(calls)].pc + 2
                /\ sp' = calls[Len(calls)].sp
                /\ calls' = SubSeq(calls, 1, Len(calls) - 1) ]_vars

\* the sixteenth nested CALL has returned
C6_Witness ==
    /\ opcode = \h00ee
    /\ err = "nil"
    /\ sp = StackSize - 1
    /\ Len(calls) = StackSize - 1
    /\ pc = ProgramStart + 6

(***************************************************************************)
(* C7.  As claimed: the stack pointer is in 0..16 in every state, and no   *)
(* CALL and no RET ends in a run-time panic.  In the code a CALL at depth  *)
(* 16 indexes stack[16] and a RET at depth 0 takes sp to 65535 and indexes *)
(* stack[65535]: both panic, and the RET leaves sp at 65535.               *)
(***************************************************************************)
C7_StackStaysInBounds ==
    /\ sp \in 0..StackSize
    /\ ~ ( /\ err = "panic"
           /\ pc + 1 < MemorySize
           /\ (Nib(opcode, 3) = 2 \/ opcode = \h00ee) )

(***************************************************************************)
(* C8.  As claimed: for all x and y, 8xy4 leaves the carry of Vx + Vy in   *)
(* VF and (Vx + Vy) mod 256 in Vx.                                         *)
(***************************************************************************)
C8_AddAnyRegister ==
    [][ ExecutesAlu(4) =>
          /\ err' = "nil"
          /\ vx'[VF] = (IF vx[RegX] + vx[RegY] > 255 THEN 1 ELSE 0)
          /\ vx'[RegX] = (vx[RegX] + vx[RegY]) % 256 ]_vars

(***************************************************************************)
(* C8, amended.  For all x and y, 8xy4 leaves the carry of Vx + Vy in VF;  *)
(* for x # F it leaves (Vx + Vy) mod 256 in Vx, and for x = F the carry,   *)
(* written last, replaces the sum.                                         *)
(***************************************************************************)
C8_AddWritesFlagLast ==
    [][ ExecutesAlu(4) =>
          /\ err' = "nil"
          /\ vx'[VF] = (IF vx[RegX] + vx[RegY] > 255 THEN 1 ELSE 0)
          /\ RegX # VF => vx'[RegX] = (vx[RegX] + vx[RegY]) % 256 ]_vars

\* 8F14 has added 1 and 255 into VF: the sum is 0 and VF holds the carry
C8_Witness ==
    /\ opcode = \h8f14
    /\ err = "nil"
    /\ vx[1] = 255
    /\ vx[VF] = 1

(***************************************************************************)
(* C9.  For 8xy5, 8xy6, 8xy7 and 8xyE and all x and y, VF afterwards is    *)
(* the flag of the values Vx and Vy had before (SUB: Vx >= Vy; SHR: bit 0  *)
(* of Vx; SUBN: Vy >= Vx; SHL: bit 7 of Vx), and for x # F Vx holds        *)
(* (Vx - Vy) mod 256, Vx div 2, (Vy - Vx) mod 256 and (2 * Vx) mod 256.    *)
(***************************************************************************)
C9_FlagsFromOldValues ==
    [][ /\ ExecutesAlu(5) =>
              /\ err' = "nil"
              /\ vx'[VF] = (IF vx[RegX] >= vx[RegY] THEN 1 ELSE 0)
              /\ RegX # VF => vx'[RegX] = (vx[RegX] - vx[RegY] + 256) % 256
        /\ ExecutesAlu(6) =>
              /\ err' = "nil"
              /\ vx'[VF] = vx[RegX] % 2
              /\ RegX # VF => vx'[RegX] = vx[RegX] \div 2
        /\ ExecutesAlu(7) =>
              /\ err' = "nil"
              /\ vx'[VF] = (IF vx[RegY] >= vx[RegX] THEN 1 ELSE 0)
              /\ RegX # VF => vx'[RegX] = (vx[RegY] - vx[RegX] + 256) % 256
        /\ ExecutesAlu(14) =>
              /\ err' = "nil"
              /\ vx'[VF] = vx[RegX] \div 128
              /\ RegX # VF => vx'[RegX] = (2 * vx[RegX]) % 256 ]_vars

\* 81F7 has subtracted V1 = 1 from VF = 255: V1 holds 254 and VF the flag
C9_Witness ==
    /\ opcode = \h81f7
    /\ err = "nil"
    /\ vx[1] = 254
    /\ vx[VF] = 1

(***************************************************************************)
(* C10.  A Dxyn whose sprite bytes lie in memory inverts exactly the cells *)
(* (row (Vy + r) mod 32, column (Vx + c) mod 64), on the unbounded sums,   *)
(* of the sprite bits that are 1 (bit 7 - c of memory[I + r], r < n,       *)
(* c < 8), and leaves every other cell alone; VF afterwards is 1 iff some  *)
(* cell went from 1 to 0.                                                  *)
(***************************************************************************)
SpriteCells ==
    { << (vx[RegY] + r) % DisplayHeight, (vx[RegX] + c) % DisplayWidth >> :
        << r, c >> \in { rc \in (0..(Nib(WordAtPC, 0) - 1)) \X (0..7) :
                           (memory[i + rc[1]] \div Pow2(7 - rc[2])) % 2 = 1 } }

C10_DrawWrapsAndFlags ==
    [][ (ExecutesFamily(13) /\ err' = "nil") =>
          \A cells \in { SpriteCells } :
             /\ \A r \in 0..(DisplayHeight - 1), c \in 0..(DisplayWidth - 1) :
                   display'[r][c] = IF << r, c >> \in cells
                                    THEN 1 - display[r][c]
                                    ELSE display[r][c]
             /\ vx'[VF] = IF \E cell \in cells : display[cell[1]][cell[2]] = 1
                          THEN 1 ELSE 0 ]_vars

\* the second DF12 of a program, drawn 3 columns to the right of the first over
\* the bottom right corner, has erased cells of the first and set VF
C10_Witness ==
    /\ opcode = \hd012
    /\ err = "nil"
    /\ vx[0] = 65
    /\ vx[VF] = 1
    /\ display[31][0] = 1
    /\ display[31][1] = 0
    /\ display[0][62] = 1
    /\ display[31][8] = 1

(***************************************************************************)
(* C11.  3xkk, 4xkk, 5xy0, 9xy0, Ex9E and ExA1 take PC to PC + 4 when      *)
(* their condition holds and to PC + 2 when it does not, and change        *)
(* nothing else: the registers, I, the stack, memory, the display and the  *)
(* keys stay, and the timers change by the timer tick of the Cycle alone.  *)
(* The key skips test key Vx & 0xF, Ex9E for down and ExA1 for up.         *)
(***************************************************************************)
SkipsIf(cond) ==
    /\ err' = "nil"
    /\ pc' = pc + (IF cond THEN 4 ELSE 2)
    /\ UNCHANGED << vx, i, stack, sp, memory, display, keys, lastReleasedKey >>
    /\ dt' = IF ticked' THEN Decremented(dt) ELSE dt
    /\ st' = IF ticked' THEN Decremented(st) ELSE st

C11_Skips ==
    [][ /\ ExecutesFamily(3) => SkipsIf(vx[RegX] = Low(WordAtPC))
        /\ ExecutesFamily(4) => SkipsIf(vx[RegX] # Low(WordAtPC))
        /\ ExecutesAlike(5, 0) => SkipsIf(vx[RegX] = vx[RegY])
        /\ ExecutesAlike(9, 0) => SkipsIf(vx[RegX] # vx[RegY])
        /\ Executes(14, \h9e) => SkipsIf(keys[vx[RegX] % 16])
        /\ Executes(14, \ha1) => SkipsIf(~keys[vx[RegX] % 16]) ]_vars

\* E09E has skipped with V0 = 16 and key 0 down
C11_Witness ==
    /\ opcode = \he09e
    /\ err = "nil"
    /\ vx[0] = 16
    /\ keys[0]
    /\ pc = ProgramStart + 24

(***************************************************************************)
(* C12.  As claimed: the marker becomes key k only in a                    *)
(* SetKeyState(k, false) call made while k was down, and                   *)
(* SetKeyState(k, false) on a key that is up leaves the marker as it is.   *)
(* The code sets the marker in every SetKeyState(k, false), whatever the   *)
(* key's state was.                                                        *)
(***************************************************************************)
C12_MarkerOnlyOnRelease ==
    [][ \A k \in KeyIds :
          /\ (lastReleasedKey' = << k >> /\ lastReleasedKey # << k >>) =>
                keys[k] /\ SetKeyStateCall(k, FALSE)
          /\ (~keys[k] /\ SetKeyStateCall(k, FALSE)) =>
                lastReleasedKey' = lastReleasedKey ]_vars

(***************************************************************************)
(* C13.  As claimed: a Cycle that executes Fx0A with no released key       *)
(* pending leaves PC, the registers, I, the stack, memory, the display,    *)
(* the keys and both timers as they were, and calls no beep.               *)
(***************************************************************************)
C13_WaitChangesNothing ==
    [][ (lastReleasedKey = << >> /\ Executes(15, \h0a)) =>
          /\ err' = "nil"
          /\ UNCHANGED << pc, vx, i, stack, sp, memory, display, keys, dt, st >>
          /\ beeps' = << >> ]_vars

(***************************************************************************)
(* C13, amended.  A Cycle that executes Fx0A with no released key pending  *)
(* returns nil and leaves PC, the registers, I, the stack, memory, the     *)
(* display and the keys as they were; the timers go on: the Cycle counts   *)
(* as a cycle, and when it runs the timer tick each nonzero timer is       *)
(* decremented and beep may be called.                                     *)
(***************************************************************************)
C13_WaitKeepsMachine ==
    [][ (lastReleasedKey = << >> /\ Executes(15, \h0a)) =>
          /\ err' = "nil"
          /\ UNCHANGED << pc, vx, i, stack, sp, memory, display, keys,
                          lastReleasedKey >>
          /\ ticked' = (clockCycleCounter = CPUFrequency \div ClockFrequency)
          /\ clockCycleCounter' = IF ticked' THEN 0 ELSE clockCycleCounter + 1
          /\ dt' = IF ticked' THEN Decremented(dt) ELSE dt
          /\ st' = IF ticked' THEN Decremented(st) ELSE st
          /\ beeps' # << >> => ticked' ]_vars

\* a waiting Fx0A has run the first tick: the sound starts and the timers go
\* from 2 to 1
C13_Witness ==
    /\ opcode = \hf30a
    /\ err = "nil"
    /\ pc = ProgramStart + 6
    /\ lastReleasedKey = << >>
    /\ ticked
    /\ beeps = << TRUE >>
    /\ dt = 1
    /\ st = 1

(***************************************************************************)
(* C14.  With I + x <= 4095, Fx55 writes V0..Vx to memory[I..I+x] and no   *)
(* other cell and leaves I and the registers; Fx65 reads V0..Vx from       *)
(* memory[I..I+x] and leaves I, memory and the registers above x; and an   *)
(* Fx65 with the I and x of the last Fx55 gives V0..Vx the values they had *)
(* at that Fx55, whatever the registers held in between.                   *)
(***************************************************************************)
C14_StoreLoadRoundTrip ==
    [][ /\ (CanFetch /\ i + RegX < MemorySize /\ Executes(15, \h55)) =>
              /\ err' = "nil"
              /\ i' = i
              /\ vx' = vx
              /\ memory' = [a \in 0..(MemorySize - 1) |->
                              IF a \in i..(i + RegX) THEN vx[a - i] ELSE memory[a]]
        /\ (CanFetch /\ i + RegX < MemorySize /\ Executes(15, \h65)) =>
              /\ err' = "nil"
              /\ i' = i
              /\ memory' = memory
              /\ vx' = [r \in 0..15 |-> IF r <= RegX THEN memory[i + r] ELSE vx[r]]
              /\ (saved # << >> /\ saved[1].i = i /\ saved[1].x = RegX) =>
                    \A r \in 0..RegX : vx'[r] = saved[1].vx[r] ]_vars

\* FF65 has loaded back, from the last 16 cells of memory, the registers that FF55
\* stored
C14_Witness ==
    /\ opcode = \hff65
    /\ err = "nil"
    /\ i = \hff0
    /\ vx[0] = \h11
    /\ vx[1] = \h22
    /\ vx[15] = \h33
    /\ memory[MemorySize - 1] = \h33

(***************************************************************************)
(* C15.  With I + 2 <= 4095, Fx33 stores at memory[I], memory[I + 1] and   *)
(* memory[I + 2] three digits h, t, o in 0..9 with 100 h + 10 t + o = Vx,  *)
(* and changes no other memory cell, no register and not I.                *)
(***************************************************************************)
C15_StoreBCD ==
    [][ (i + 2 < MemorySize /\ Executes(15, \h33)) =>
          /\ err' = "nil"
          /\ i' = i
          /\ vx' = vx
          /\ \A a \in i..(i + 2) : memory'[a] \in 0..9
          /\ 100 * memory'[i] + 10 * memory'[i + 1] + memory'[i + 2] = vx[RegX]
          /\ \A a \in 0..(MemorySize - 1) :
                a \notin i..(i + 2) => memory'[a] = memory[a] ]_vars

\* F033 has stored 1, 5, 7 for V0 = 157
C15_Witness ==
    /\ opcode = \hf033
    /\ err = "nil"
    /\ vx[0] = 157
    /\ i = \h300
    /\ memory[\h300] = 1
    /\ memory[\h301] = 5
    /\ memory[\h302] = 7

(***************************************************************************)
(* C16.  For x # F, 7xkk sets Vx to (Vx + kk) mod 256, 8xy0, 8xy1, 8xy2    *)
(* and 8xy3 set Vx to Vy, Vx | Vy, Vx & Vy and Vx ^ Vy, and Fx1E sets I to *)
(* (I + Vx) mod 65536; each leaves VF and every register other than Vx as  *)
(* it was and advances PC by 2.                                            *)
(***************************************************************************)
Bit(v, k) == (v \div Pow2(k)) % 2

\* the step sets Vx so that bit k of it is f[bit k of Vx, bit k of Vy]
SetsVxBitwise(f) ==
    /\ vx'[RegX] \in 0..255
    /\ \A k \in 0..7 : Bit(vx'[RegX], k) = f[Bit(vx[RegX], k), Bit(vx[RegY], k)]

KeepsOtherRegisters ==
    /\ err' = "nil"
    /\ pc' = pc + 2
    /\ \A r \in 0..15 : r # RegX => vx'[r] = vx[r]

C16_NoFlagInstructions ==
    [][ (CanFetch /\ RegX # VF) =>
          /\ ExecutesFamily(7) =>
                /\ vx'[RegX] = (vx[RegX] + Low(WordAtPC)) % 256
                /\ KeepsOtherRegisters
          /\ ExecutesAlu(0) => vx'[RegX] = vx[RegY] /\ KeepsOtherRegisters
          /\ ExecutesAlu(1) =>
                /\ SetsVxBitwise([a, b \in 0..1 |-> IF a + b >= 1 THEN 1 ELSE 0])
                /\ KeepsOtherRegisters
          /\ ExecutesAlu(2) =>
                /\ SetsVxBitwise([a, b \in 0..1 |-> a * b])
                /\ KeepsOtherRegisters
          /\ ExecutesAlu(3) =>
                /\ SetsVxBitwise([a, b \in 0..1 |-> (a + b) % 2])
                /\ KeepsOtherRegisters
          /\ Executes(15, \h1e) =>
                /\ i' = (i + vx[RegX]) % 65536
                /\ vx' = vx
                /\ KeepsOtherRegisters ]_vars

\* F01E has taken I past 65535 with VF still 3
C16_Witness ==
    /\ opcode = \hf01e
    /\ err = "nil"
    /\ i = 14
    /\ vx[0] = 255
    /\ vx[VF] = 3

(***************************************************************************)
(* C17.  Every cell of the display is 0 or 1 in every state; the display   *)
(* changes only in a Cycle that executes 00E0 or Dxyn, so not in a failed  *)
(* Cycle, by a timer tick or in SetKeyState; and 00E0 sets every cell      *)
(* to 0.                                                                   *)
(***************************************************************************)
C17_DisplayChanges ==
    /\ [](display \in [0..(DisplayHeight - 1) -> [0..(DisplayWidth - 1) -> {0, 1}]])
    /\ [][ /\ display' # display =>
                /\ CycleStep
                /\ CanFetch
                /\ IsOp(WordAtPC, 0, \he0) \/ Nib(WordAtPC, 3) = 13
           /\ Executes(0, \he0) => err' = "nil" /\ display' = ZeroDisplay ]_vars

\* 00E0 has cleared the digit that D015 drew
C17_Witness ==
    /\ opcode = \h00e0
    /\ err = "nil"
    /\ pc = ProgramStart + 6
    /\ memory[ProgramStart + 2] = \hd0
    /\ display = ZeroDisplay

(***************************************************************************)
(* C18.  As claimed: no memory access leaves 0..4095, so that neither the  *)
(* fetch at PC and PC + 1 nor the accesses of Dxyn, Fx33, Fx55 and Fx65 at *)
(* I and above end in a run-time panic.  The code indexes memory with      *)
(* PC + 1 and I + k unchecked: at 4096 and above Go panics.                *)
(***************************************************************************)
C18_MemoryAccessInBounds ==
    ~ ( /\ err = "panic"
        /\ \/ pc + 1 >= MemorySize
           \/ Nib(opcode, 3) = 13
           \/ Nib(opcode, 3) = 15 /\ Low(opcode) \in { \h33, \h55, \h65 } )

(***************************************************************************)
(* C19.  For x, y # F, a Dxyn executed right after the same Dxyn gives the *)
(* display the contents it had before the first of the two, and leaves VF  *)
(* at 1 iff the first turned on at least one cell.                         *)
(***************************************************************************)
C19_DrawTwiceRestores ==
    [][ ( /\ drawnOver # << >>
          /\ CanFetch
          /\ opcode = WordAtPC
          /\ RegX # VF
          /\ RegY # VF
          /\ ExecutesFamily(13)
          /\ err' = "nil" ) =>
          /\ display' = drawnOver[1]
          /\ vx'[VF] = IF \E r \in 0..(DisplayHeight - 1), c \in 0..(DisplayWidth - 1) :
                             drawnOver[1][r][c] = 0 /\ display[r][c] = 1
                       THEN 1 ELSE 0 ]_vars

\* the third D012 of a program has undone the second: the cells of the first are
\* back, and VF is 1
C19_Witness ==
    /\ opcode = \hd012
    /\ err = "nil"
    /\ pc = ProgramStart + 14
    /\ drawnOver # << >>
    /\ vx[0] = 65
    /\ vx[VF] = 1
    /\ display[31][1] = 1
    /\ display[31][63] = 1
    /\ display[31][8] = 0

(***************************************************************************)
(* C20.  If Cycle returns nil again and again and from some point on no    *)
(* Fx18 is executed, the sound timer is eventually 0 for good and the last *)
(* beep call is not left at true; likewise the delay timer without Fx15.   *)
(* The beep(false) comes in the first tick that finds the sound timer 0    *)
(* with a sound playing.  A Cycle waiting in Fx0A returns nil and counts;  *)
(* a Cycle that returns ErrUnknownOpcode leaves both timers and the cycle  *)
(* counter and calls no beep.  That Cycle goes on returning nil is a       *)
(* hypothesis of the formula, so Spec needs no fairness condition for it.  *)
(***************************************************************************)
Succeeds == CycleStep /\ err' = "nil"

C20_TimersRunDown ==
    /\ ([]<><< Succeeds >>_vars /\ <>[][~Executes(15, \h18)]_vars) =>
          (<>[](st = 0) /\ <>[](lastBeep # << TRUE >>))
    /\ ([]<><< Succeeds >>_vars /\ <>[][~Executes(15, \h15)]_vars) => <>[](dt = 0)
    /\ [][ /\ (isSoundPlaying /\ CanFetch /\ SoundSet = 0 /\ Succeeds /\ ticked') =>
                beeps' = << FALSE >>
           /\ (CycleStep /\ err' = "ErrUnknownOpcode") =>
                /\ UNCHANGED << dt, st, clockCycleCounter >>
                /\ beeps' = << >> ]_vars

\* both timers have run down from 2 and the sound was stopped while the program
\* waits in Fx0A
C20_Witness ==
    /\ opcode = \hf30a
    /\ err = "nil"
    /\ pc = ProgramStart + 6
    /\ lastReleasedKey = << >>
    /\ memory[ProgramStart] = \h6a
    /\ dt = 0
    /\ st = 0
    /\ lastBeep = << FALSE >>

=============================================================================
